---- MODULE Spec2Model ----
(***************************************************************************)
(* Session lifecycle of the WhatsApp HTTP backend.                         *)
(*                                                                         *)
(* The repository holds several variants of the same server.  Each variant *)
(* is modelled by its own group of variables and its own specification:    *)
(*                                                                         *)
(*   Spec   the SESSION_STATE / Baileys server   (src/unnamed/part_004)    *)
(*   SpecB  the CommonJS Baileys server with retry (src/unnamed/part_001)  *)
(*   Spec000 the ESM Baileys server with retry     (src/unnamed/part_000)  *)
(*                                                                         *)
(* The Protocol Client (the Baileys socket) is the environment: while a    *)
(* handle is live it may emit connection.update events at any time.  A     *)
(* handle emits its 'close' event synchronously from end()/logout(), and   *)
(* emits nothing after it has been ended.                                  *)
(*                                                                         *)
(* Node runs every handler to its next await without interruption, so      *)
(* every action below is one such uninterrupted run: from the start of a   *)
(* handler (or from the resumption of an await) to the next await that     *)
(* really suspends (or to the end of the handler).                         *)
(***************************************************************************)
EXTENDS Integers, FiniteSets, Sequences, TLC

\* ------------------------------------------------------------------ bounds
MaxHandles == 2      \* handles (sockets) live or still referenced at once
MaxPending == 2      \* suspended continuations and pending timers at once
MaxSuspended == 3    \* the same, SESSION_STATE variant

\* --------------------------------------------------------------- constants
maxRetries == 3
NoSocket == 0        \* SESSION_STATE.socket === null
MAX_RECONNECT_ATTEMPTS == 3
RECONNECT_DELAY == 5000

Handles == 1..MaxHandles
NoQr == <<>>         \* SESSION_STATE.qr === null
NoQrCode == ""       \* qrCode is undefined, or null
QrStrings == {"XYZ"}

\* qrcode.toDataURL: the pairing string rendered as a base64 data URL
toDataURL(q) == <<"data:image/png;base64", q>>

\* lastDisconnect?.error?.output?.statusCode of a close event
Reasons == {"loggedOut", "connectionClosed", "connectionReplaced",
            "badSession", "connectionLost", "timedOut", "undefined"}

\* the routes that call closeSession
Callers == {"disconnect", "reconnect"}

VARIABLES
    SESSION_STATE,   \* [socket, status, qr, retryCount]
    handles,         \* handle id -> "none" | "connecting" | "open" | "ended"
    initTasks,       \* initializeWhatsApp invocations suspended at an await
    qrTasks,         \* <<h, q>>: connection.update handlers awaiting toDataURL
    closeTasks,      \* <<h, caller>>: closeSession awaiting socket.logout()
    timers,          \* pending setTimeout(..., 5000) reconnect callbacks
    response,        \* the last HTTP response sent
    oldTimers,       \* history: [by, n], the n oldest pending timers were already
                     \* pending when the route `by` (disconnect, reconnect) was called
    lowered          \* history: the step that last lowered retryCount: "open",
                     \* "close" (a close event), "qr limit" (the QR handler at
                     \* maxRetries), "operator" (a route), "other", or "none"

varsA == <<SESSION_STATE, handles, initTasks, qrTasks, closeTasks, timers, response,
           oldTimers, lowered>>

\* src/unnamed/part_001 and src/unnamed/part_000 (the same globals)
VARIABLES
    variant,         \* "part_001" or "part_000": the file that is running
    globals,         \* [sock, qrCode, connectionStatus, isAuthenticated,
                     \*  reconnectAttempts, isReconnecting, shouldReconnect]
    socks,           \* handle id -> "none" | "new" | "connecting" | "open" | "ended"
    connTasks,       \* connectToWhatsApp invocations awaiting useMultiFileAuthState
    logoutTasks,     \* handles whose logout() POST /desconectar is awaiting
    timersB,         \* pending setTimeout callbacks [kind, delay, old], in the
                     \* order they were set; old names the route (reconectar,
                     \* desconectar) during whose call the timer was already pending
    responseB,       \* the last HTTP response sent
    lastB,           \* history of the last step: "desconectar" when it was POST
                     \* /desconectar sending its response, "timer disabled" when
                     \* it was a timer that found shouldReconnect false, "close
                     \* disabled" when it was a close event that found
                     \* shouldReconnect false, else "other"
    closes,          \* history: the close events since the last "open" event
                     \* (at most MAX_RECONNECT_ATTEMPTS are counted), or -1 when
                     \* a QR, a failed connect or a request came after it, or
                     \* when shouldReconnect was false at that "open"
    onlyCloses,      \* history: no request has been made, and no socket has
                     \* opened, shown a QR or failed to be created
    lastDelay        \* history: the delay of the last backoff timer that a
                     \* close event set since the last "open", QR, POST
                     \* /reconectar or POST /desconectar; 0 when there is none

varsB == <<variant, globals, socks, connTasks, logoutTasks, timersB, responseB,
           lastB, closes, onlyCloses, lastDelay>>

vars == <<varsA, varsB>>

\* --------------------------------------------------------------- handles
Live(h) == handles[h] \in {"connecting", "open"}

LiveHandles == {h \in Handles : Live(h)}

\* A handle that has ended and that no suspended handler still holds can do
\* nothing any more: its identity is free again.
Referenced(h, qt, ct) ==
    \/ \E q \in QrStrings : <<h, q>> \in qt
    \/ \E caller \in Callers : <<h, caller>> \in ct

Recycle(hs, qt, ct) ==
    [h \in Handles |->
        IF hs[h] = "ended" /\ ~Referenced(h, qt, ct) THEN "none" ELSE hs[h]]

\* what the event loop still has to run: suspended initializeWhatsApp,
\* toDataURL and logout continuations, and pending timers
Pending == initTasks + timers + Cardinality(qrTasks) + Cardinality(closeTasks)

CanSuspend == Pending < MaxSuspended

FreeHandles == {h \in Handles : handles[h] = "none"}

\* the identity of the next handle makeWASocket returns
NextHandle == CHOOSE h \in FreeHandles : \A g \in FreeHandles : h <= g

\* ------------------------------------------------------- history variable
NoOldTimers == [by |-> "none", n |-> 0]

\* a route that should cancel the pending timers is called
MarkOldTimers(caller, n) == IF n = 0 THEN NoOldTimers ELSE [by |-> caller, n |-> n]

\* timers of equal delay fire in the order they were set: the oldest first
OldTimerFired(ot) == IF ot.n <= 1 THEN NoOldTimers ELSE [ot EXCEPT !.n = @ - 1]

\* ----------------------------------------------------------- pure helpers

\* initializeWhatsApp up to its first await: FALSE when it returns early
InitializeStarts(ss) == ss.socket = NoSocket

\* an initializeWhatsApp that also resets retryCount
InitializeSyncResetting(ss) ==
    IF InitializeStarts(ss)
    THEN [ss EXCEPT !.status = "connecting", !.retryCount = 0]
    ELSE ss

InitializeSync(ss) ==
    IF InitializeStarts(ss) THEN [ss EXCEPT !.status = "connecting"] ELSE ss

\* POST /api/init: 'Client is already initializing'
AlreadyInitializingNoQr(ss) == ss.status = "connecting"

AlreadyInitializing(ss) == ss.status \in {"connecting", "qr"}

\* connection.update, connection === 'close'
ShouldReconnect(ss, reason) ==
    /\ reason # "loggedOut"
    /\ ss.socket # NoSocket
    /\ ss.retryCount < maxRetries

CloseHandler(ss, reason) ==
    IF ShouldReconnect(ss, reason)
    THEN [ss EXCEPT !.socket = NoSocket, !.status = "connecting"]
    ELSE [ss EXCEPT !.socket = NoSocket,
                    !.status = IF reason = "loggedOut" THEN "disconnected" ELSE "error",
                    !.qr = NoQr,
                    !.retryCount = 0]

\* connection.update, connection === 'open'
OpenHandler(ss) ==
    [ss EXCEPT !.status = "connected", !.qr = NoQr, !.retryCount = 0]

\* connection.update, qr present: the part after await qrcode.toDataURL,
\* before socket.end
QrHandlerPayloadLater(ss, q) ==
    [ss EXCEPT !.status = "qr", !.retryCount = @ + 1]

QrHandler(ss, q) ==
    LET s1 == [ss EXCEPT !.qr = toDataURL(q), !.status = "qr", !.retryCount = @ + 1]
    IN  IF s1.retryCount >= maxRetries
        THEN [s1 EXCEPT !.status = "error", !.qr = NoQr]
        ELSE s1

QrGivesUp(ss) == ss.retryCount + 1 >= maxRetries

\* closeSession: the reset of the state before the socket is closed
CloseSessionReset(ss) ==
    [ss EXCEPT !.socket = NoSocket, !.status = "disconnected",
               !.qr = NoQr, !.retryCount = 0]


\* ====================================================================
\* src/unnamed/part_001: the server with attemptReconnect
\* ====================================================================

\* (lastDisconnect?.error instanceof Boom)?.output?.statusCode: instanceof
\* yields a boolean, and a boolean has no property `output`
StatusCodeB(reason) == "undefined"

Min(a, b) == IF a <= b THEN a ELSE b

LiveB(hs, h) == hs[h] \in {"new", "connecting", "open"}

LiveHandlesB == {h \in Handles : LiveB(socks, h)}

\* an ended handle that neither `sock` nor a suspended logout still holds
RecycleB(hs, s, lt) ==
    [h \in Handles |->
        IF hs[h] = "ended" /\ s # h /\ h \notin lt THEN "none" ELSE hs[h]]

FreeHandlesB == {h \in Handles : socks[h] = "none"}

NextHandleB == CHOOSE h \in FreeHandlesB : \A g \in FreeHandlesB : h <= g

\* setTimeout(callback, delay)
Timer(kind, delay) == [kind |-> kind, delay |-> delay, old |-> "no"]

SetTimeout(w, kind, delay) == [w EXCEPT !.tm = Append(@, Timer(kind, delay))]

\* a timer fires before every timer set later with an equal or longer delay
MayFire(tm, i) == \A j \in 1..(i - 1) : tm[j].delay > tm[i].delay

RemoveAt(tm, i) == [j \in 1..(Len(tm) - 1) |-> IF j < i THEN tm[j] ELSE tm[j + 1]]

\* history: every timer pending now was pending when the route was called
MarkOld(tm, route) == [j \in 1..Len(tm) |-> [tm[j] EXCEPT !.old = route]]

\* the timer list after a handler ends with a timer of attemptReconnect's
\* setTimeout(..., delay) that the list before did not have
SetsBackoff(tm, tm1) == Len(tm1) > Len(tm) /\ tm1[Len(tm1)].kind = "backoff"

\* what the event loop still has to run
PendingB(w, ct, lt) == ct + Cardinality(lt) + Len(w.tm)

WithinB(w, ct, lt) == PendingB(w, ct, lt) <= MaxPending

\* the current world: the globals, the handles and the pending timers
World == [g |-> globals, hs |-> socks, tm |-> timersB]

RECURSIVE cleanupSession(_)
RECURSIVE attemptReconnect(_)
RECURSIVE CloseHandlerB(_, _)

\* the guard of connectToWhatsApp
ConnectStarts(g) == g.connectionStatus \notin {"conectando", "conectado"}

\* connectToWhatsApp up to its await
ConnectSync(g) ==
    IF ConnectStarts(g) THEN [g EXCEPT !.connectionStatus = "conectando"] ELSE g

\* sock.end(): the 'close' event of a live handle runs the handler at once
EndSocketB(w, h, reason) ==
    IF LiveB(w.hs, h)
    THEN CloseHandlerB([w EXCEPT !.hs[h] = "ended"], reason)
    ELSE w

cleanupSession(w) ==
    LET w1 == IF w.g.sock # NoSocket
              THEN [EndSocketB(w, w.g.sock, "undefined") EXCEPT !.g.sock = NoSocket]
              ELSE w
    IN  [w1 EXCEPT !.g.qrCode = NoQrCode,
                   !.g.isAuthenticated = FALSE,
                   !.g.connectionStatus = "desconectado",
                   !.g.isReconnecting = FALSE]

attemptReconnect(w) ==
    IF w.g.isReconnecting \/ ~w.g.shouldReconnect
    THEN w
    ELSE LET w1 == [w EXCEPT !.g.isReconnecting = TRUE,
                             !.g.reconnectAttempts = @ + 1]
         IN  IF w1.g.reconnectAttempts > MAX_RECONNECT_ATTEMPTS
             THEN SetTimeout(
                      cleanupSession([w1 EXCEPT !.g.connectionStatus = "error_reconexion",
                                                !.g.isReconnecting = FALSE,
                                                !.g.reconnectAttempts = 0]),
                      "fresh", RECONNECT_DELAY)
             ELSE SetTimeout(w1, "backoff",
                             RECONNECT_DELAY * Min(w1.g.reconnectAttempts, 3))

\* part_001: if (shouldReconnect && reconnectAttempts < MAX_RECONNECT_ATTEMPTS)
\* part_000: if (shouldReconnect)
MayRetry(g) ==
    /\ g.shouldReconnect
    /\ variant = "part_001" => g.reconnectAttempts < MAX_RECONNECT_ATTEMPTS

\* the branch of the close handler that a close event takes: isLoggedOut,
\* isConflict, isBadSession, and the two last branches (isLost || isTimedOut,
\* else), which both go to attemptReconnect
CloseClassB(reason) ==
    LET statusCode == StatusCodeB(reason)
    IN  IF statusCode = "loggedOut" THEN "LoggedOut"
        ELSE IF statusCode = "connectionReplaced" THEN "Conflict"
        ELSE IF statusCode = "badSession" THEN "CorruptSession"
        ELSE "Transient"

\* a close handler that sets a reconnect timer whatever shouldReconnect is
CloseHandlerBUnconditional(w, reason) ==
    SetTimeout([w EXCEPT !.g.connectionStatus = "desconectado",
                         !.g.isAuthenticated = FALSE,
                         !.g.qrCode = NoQrCode],
               "manual", RECONNECT_DELAY)

\* connection.update, connection === "close"
CloseHandlerB(w, reason) ==
    LET class == CloseClassB(reason)
        w1 == [w EXCEPT !.g.connectionStatus = "desconectado",
                        !.g.isAuthenticated = FALSE,
                        !.g.qrCode = NoQrCode]
    IN  IF class \in {"LoggedOut", "CorruptSession"}
        THEN SetTimeout(cleanupSession([w1 EXCEPT !.g.reconnectAttempts = 0]),
                        "fresh", 3000)
        ELSE IF class = "Conflict"
        THEN cleanupSession([w1 EXCEPT !.g.shouldReconnect = FALSE])
        ELSE IF MayRetry(w1.g) THEN attemptReconnect(w1) ELSE w1

\* connection.update, qr present
QrHandlerB(g, q) ==
    [g EXCEPT !.qrCode = q, !.isAuthenticated = FALSE,
              !.connectionStatus = "esperando_qr", !.reconnectAttempts = 0]

\* connection.update, connection === "open"
OpenHandlerB(g) ==
    [g EXCEPT !.connectionStatus = "conectado", !.isAuthenticated = TRUE,
              !.qrCode = NoQrCode, !.reconnectAttempts = 0, !.isReconnecting = FALSE]

\* the callback of a timer
TimerCallback(g, kind) ==
    IF kind = "backoff"
    THEN LET g1 == [g EXCEPT !.isReconnecting = FALSE]
         IN  IF g1.shouldReconnect THEN ConnectSync(g1) ELSE g1
    ELSE IF kind = "fresh"
    THEN IF g.shouldReconnect THEN ConnectSync(g) ELSE g
    ELSE ConnectSync(g)

\* a callback that does not test shouldReconnect
TimerStartsConnectAlways(g, kind) == ConnectStarts(g)

TimerStartsConnect(g, kind) ==
    /\ kind \in {"backoff", "fresh"} => g.shouldReconnect
    /\ ConnectStarts(g)

\* the state once app.listen's callback has called connectToWhatsApp
InitGlobals ==
    /\ globals = [sock |-> NoSocket, qrCode |-> NoQrCode,
                  connectionStatus |-> "conectando", isAuthenticated |-> FALSE,
                  reconnectAttempts |-> 0, isReconnecting |-> FALSE,
                  shouldReconnect |-> TRUE]
    /\ socks = [h \in Handles |-> "none"]
    /\ connTasks = 1
    /\ logoutTasks = {}
    /\ timersB = <<>>
    /\ responseB = [op |-> "none", code |-> 0]
    /\ lastB = "other"
    /\ closes = -1
    /\ onlyCloses = TRUE
    /\ lastDelay = 0

InitB == InitGlobals /\ variant = "part_001"

\* write a world back, dropping the identities of forgotten handles
Commit(w, lt) ==
    /\ globals' = w.g
    /\ socks' = RecycleB(w.hs, w.g.sock, lt)
    /\ timersB' = w.tm
    /\ logoutTasks' = lt

\* ------------------------------------------------------------------ Init
InitA ==
    /\ SESSION_STATE = [socket |-> NoSocket, status |-> "disconnected",
                        qr |-> NoQr, retryCount |-> 0]
    /\ handles = [h \in Handles |-> "none"]
    /\ initTasks = 0
    /\ qrTasks = {}
    /\ closeTasks = {}
    /\ timers = 0
    /\ response = [op |-> "none", code |-> 0, status |-> "none"]
    /\ oldTimers = NoOldTimers
    /\ lowered = "none"

Init == InitA /\ InitB

Init000 == InitA /\ InitGlobals /\ variant = "part_000"

\* --------------------------------------------------------------- actions

\* POST /api/init
ApiInit ==
    /\ UNCHANGED varsB
    /\ IF SESSION_STATE.status = "connected"
       THEN /\ response' = [op |-> "init", code |-> 200, status |-> "connected"]
            /\ UNCHANGED <<SESSION_STATE, initTasks, oldTimers>>
       ELSE IF AlreadyInitializing(SESSION_STATE)
       THEN /\ response' = [op |-> "init", code |-> 200, status |-> SESSION_STATE.status]
            /\ UNCHANGED <<SESSION_STATE, initTasks, oldTimers>>
       ELSE LET s0 == [SESSION_STATE EXCEPT !.retryCount = 0]
            IN  /\ InitializeStarts(s0) => CanSuspend
                /\ SESSION_STATE' = InitializeSync(s0)
                /\ initTasks' = IF InitializeStarts(s0) THEN initTasks + 1 ELSE initTasks
                /\ response' = [op |-> "init", code |-> 202, status |-> "connecting"]
                /\ oldTimers' = NoOldTimers
    /\ UNCHANGED <<handles, qrTasks, closeTasks, timers>>
    /\ lowered' = IF SESSION_STATE'.retryCount < SESSION_STATE.retryCount
                  THEN "operator" ELSE lowered

\* initializeWhatsApp resumes: credentials loaded, socket made and stored
InitResume ==
    /\ UNCHANGED varsB
    /\ initTasks > 0
    /\ FreeHandles # {}
    /\ initTasks' = initTasks - 1
    /\ handles' = [handles EXCEPT ![NextHandle] = "connecting"]
    /\ SESSION_STATE' = [SESSION_STATE EXCEPT !.socket = NextHandle]
    /\ UNCHANGED <<qrTasks, closeTasks, timers, response, oldTimers>>
    /\ lowered' = IF SESSION_STATE'.retryCount < SESSION_STATE.retryCount
                  THEN "other" ELSE lowered

\* initializeWhatsApp resumes with a throw: the catch block
InitFail ==
    /\ UNCHANGED varsB
    /\ initTasks > 0
    /\ initTasks' = initTasks - 1
    /\ SESSION_STATE' = [SESSION_STATE EXCEPT !.socket = NoSocket, !.status = "error"]
    /\ UNCHANGED <<handles, qrTasks, closeTasks, timers, response, oldTimers>>
    /\ lowered' = IF SESSION_STATE'.retryCount < SESSION_STATE.retryCount
                  THEN "other" ELSE lowered

\* connection.update {qr}: the handler suspends in qrcode.toDataURL
ConnUpdateQr(h, q) ==
    /\ UNCHANGED varsB
    /\ handles[h] = "connecting"
    /\ <<h, q>> \notin qrTasks
    /\ CanSuspend
    /\ qrTasks' = qrTasks \cup {<<h, q>>}
    /\ UNCHANGED <<SESSION_STATE, handles, initTasks, closeTasks, timers, response, oldTimers>>
    /\ UNCHANGED lowered

\* the handler resumes after toDataURL; at maxRetries it ends its own socket,
\* whose 'close' event runs the close branch of the handler
QrResume(h, q) ==
    /\ UNCHANGED varsB
    /\ <<h, q>> \in qrTasks
    /\ qrTasks' = qrTasks \ {<<h, q>>}
    /\ IF QrGivesUp(SESSION_STATE) /\ Live(h)
       THEN /\ handles' = Recycle([handles EXCEPT ![h] = "ended"], qrTasks', closeTasks)
            /\ SESSION_STATE' = CloseHandler(QrHandler(SESSION_STATE, q), "undefined")
       ELSE /\ SESSION_STATE' = QrHandler(SESSION_STATE, q)
            /\ handles' = Recycle(handles, qrTasks', closeTasks)
    /\ UNCHANGED <<initTasks, closeTasks, timers, response, oldTimers>>
    /\ lowered' = IF SESSION_STATE'.retryCount < SESSION_STATE.retryCount
                  THEN "qr limit" ELSE lowered

\* toDataURL rejects: the catch block only logs
QrFail(h, q) ==
    /\ UNCHANGED varsB
    /\ <<h, q>> \in qrTasks
    /\ qrTasks' = qrTasks \ {<<h, q>>}
    /\ handles' = Recycle(handles, qrTasks', closeTasks)
    /\ UNCHANGED <<SESSION_STATE, initTasks, closeTasks, timers, response, oldTimers>>
    /\ UNCHANGED lowered

\* connection.update {connection: 'close'} emitted by the protocol client
ConnUpdateClose(h, reason) ==
    /\ UNCHANGED varsB
    /\ Live(h)
    /\ ShouldReconnect(SESSION_STATE, reason) => CanSuspend
    /\ handles' = Recycle([handles EXCEPT ![h] = "ended"], qrTasks, closeTasks)
    /\ SESSION_STATE' = CloseHandler(SESSION_STATE, reason)
    /\ timers' = IF ShouldReconnect(SESSION_STATE, reason) THEN timers + 1 ELSE timers
    /\ UNCHANGED <<initTasks, qrTasks, closeTasks, response, oldTimers>>
    /\ lowered' = IF SESSION_STATE'.retryCount < SESSION_STATE.retryCount
                  THEN "close" ELSE lowered

\* connection.update {connection: 'open'}
ConnUpdateOpen(h) ==
    /\ UNCHANGED varsB
    /\ handles[h] = "connecting"
    /\ handles' = [handles EXCEPT ![h] = "open"]
    /\ SESSION_STATE' = OpenHandler(SESSION_STATE)
    /\ UNCHANGED <<initTasks, qrTasks, closeTasks, timers, response, oldTimers>>
    /\ lowered' = IF SESSION_STATE'.retryCount < SESSION_STATE.retryCount
                  THEN "open" ELSE lowered

\* the reconnect timer of the close branch fires
TimerFire ==
    /\ UNCHANGED varsB
    /\ timers > 0
    /\ timers' = timers - 1
    /\ oldTimers' = OldTimerFired(oldTimers)
    /\ SESSION_STATE' = InitializeSync(SESSION_STATE)
    /\ initTasks' = IF InitializeStarts(SESSION_STATE) THEN initTasks + 1 ELSE initTasks
    /\ UNCHANGED <<handles, qrTasks, closeTasks, response>>
    /\ lowered' = IF SESSION_STATE'.retryCount < SESSION_STATE.retryCount
                  THEN "other" ELSE lowered

\* closeSession has returned: the rest of the route that called it
\*   POST /api/disconnect   responds
\*   POST /api/reconnect    retryCount = 0; initializeWhatsApp(); responds
AfterCloseSession(caller, ss) ==
    IF caller = "reconnect"
    THEN InitializeSync([ss EXCEPT !.retryCount = 0])
    ELSE ss

StartsInit(caller, ss) == caller = "reconnect" /\ InitializeStarts(ss)

\* socketToClose.ws?.readyState === 1: an open connection has an open
\* websocket, a connecting one may have, an ended one has not
WsOpenChoices(h) ==
    IF handles[h] = "open" THEN {TRUE}
    ELSE IF handles[h] = "connecting" THEN BOOLEAN
    ELSE {FALSE}

\* POST /api/disconnect and POST /api/reconnect, up to the await of
\* socketToClose.logout() (or to the end, when nothing is awaited)
ApiCloseSession(caller) ==
    /\ UNCHANGED varsB
    /\ oldTimers' = MarkOldTimers(caller, timers)
    /\ IF SESSION_STATE.socket = NoSocket
       THEN /\ StartsInit(caller, SESSION_STATE) => CanSuspend
            /\ SESSION_STATE' = AfterCloseSession(caller, SESSION_STATE)
            /\ initTasks' = IF StartsInit(caller, SESSION_STATE) THEN initTasks + 1 ELSE initTasks
            /\ response' = [op |-> caller, code |-> 200, status |-> "none"]
            /\ UNCHANGED <<handles, qrTasks, closeTasks, timers>>
       ELSE LET socketToClose == SESSION_STATE.socket
                s0 == CloseSessionReset(SESSION_STATE)
                \* socketToClose.end(undefined) emits 'close' into the handler
                s1 == IF Live(socketToClose) THEN CloseHandler(s0, "undefined") ELSE s0
            IN  \E wsOpen \in WsOpenChoices(socketToClose) :
                  IF wsOpen
                  THEN /\ <<socketToClose, caller>> \notin closeTasks
                       /\ CanSuspend
                       /\ SESSION_STATE' = s0
                       /\ closeTasks' = closeTasks \cup {<<socketToClose, caller>>}
                       /\ UNCHANGED <<handles, initTasks, qrTasks, timers, response>>
                  ELSE /\ StartsInit(caller, s1) => CanSuspend
                       /\ handles' = Recycle([handles EXCEPT ![socketToClose] = "ended"],
                                              qrTasks, closeTasks)
                       /\ SESSION_STATE' = AfterCloseSession(caller, s1)
                       /\ initTasks' = IF StartsInit(caller, s1) THEN initTasks + 1 ELSE initTasks
                       /\ response' = [op |-> caller, code |-> 200, status |-> "none"]
                       /\ UNCHANGED <<qrTasks, closeTasks, timers>>
    /\ lowered' = IF SESSION_STATE'.retryCount < SESSION_STATE.retryCount
                  THEN "operator" ELSE lowered

\* socketToClose.logout() resolves: it ended the socket with reason
\* loggedOut (the 'close' event runs the handler), end(undefined) then finds
\* the socket ended, closeSession returns and the route finishes
LogoutResume(h, caller) ==
    /\ UNCHANGED varsB
    /\ <<h, caller>> \in closeTasks
    /\ Live(h)
    /\ LET s1 == CloseHandler(SESSION_STATE, "loggedOut")
       IN  /\ SESSION_STATE' = AfterCloseSession(caller, s1)
           /\ initTasks' = IF StartsInit(caller, s1) THEN initTasks + 1 ELSE initTasks
    /\ closeTasks' = closeTasks \ {<<h, caller>>}
    /\ handles' = Recycle([handles EXCEPT ![h] = "ended"], qrTasks, closeTasks')
    /\ response' = [op |-> caller, code |-> 200, status |-> "none"]
    /\ UNCHANGED <<qrTasks, timers, oldTimers>>
    /\ lowered' = IF SESSION_STATE'.retryCount < SESSION_STATE.retryCount
                  THEN "operator" ELSE lowered

\* socketToClose.logout() rejects: the catch block logs, end() is skipped
LogoutFail(h, caller) ==
    /\ UNCHANGED varsB
    /\ <<h, caller>> \in closeTasks
    /\ SESSION_STATE' = AfterCloseSession(caller, SESSION_STATE)
    /\ initTasks' = IF StartsInit(caller, SESSION_STATE) THEN initTasks + 1 ELSE initTasks
    /\ closeTasks' = closeTasks \ {<<h, caller>>}
    /\ handles' = Recycle(handles, qrTasks, closeTasks')
    /\ response' = [op |-> caller, code |-> 200, status |-> "none"]
    /\ UNCHANGED <<qrTasks, timers, oldTimers>>
    /\ lowered' = IF SESSION_STATE'.retryCount < SESSION_STATE.retryCount
                  THEN "operator" ELSE lowered

\* process.on('unhandledRejection')
UnhandledRejection ==
    /\ UNCHANGED varsB
    /\ SESSION_STATE.status = "connected"
    /\ SESSION_STATE' = [SESSION_STATE EXCEPT !.status = "error"]
    /\ UNCHANGED <<handles, initTasks, qrTasks, closeTasks, timers, response, oldTimers>>
    /\ lowered' = IF SESSION_STATE'.retryCount < SESSION_STATE.retryCount
                  THEN "other" ELSE lowered

Next ==
    \/ ApiInit
    \/ InitResume
    \/ InitFail
    \/ \E h \in Handles, q \in QrStrings : ConnUpdateQr(h, q)
    \/ \E h \in Handles, q \in QrStrings : QrResume(h, q)
    \/ \E h \in Handles, q \in QrStrings : QrFail(h, q)
    \/ \E h \in Handles, reason \in Reasons : ConnUpdateClose(h, reason)
    \/ \E h \in Handles : ConnUpdateOpen(h)
    \/ TimerFire
    \/ \E caller \in Callers : ApiCloseSession(caller)
    \/ \E h \in Handles, caller \in Callers : LogoutResume(h, caller)
    \/ \E h \in Handles, caller \in Callers : LogoutFail(h, caller)
    \/ UnhandledRejection

Spec == Init /\ [][Next]_vars

\* only init calls, handle events, their continuations and timers: no
\* disconnect and no reconnect
NextInitOnly ==
    \/ ApiInit
    \/ InitResume
    \/ InitFail
    \/ \E h \in Handles, q \in QrStrings : ConnUpdateQr(h, q)
    \/ \E h \in Handles, q \in QrStrings : QrResume(h, q)
    \/ \E h \in Handles, q \in QrStrings : QrFail(h, q)
    \/ \E h \in Handles, reason \in Reasons : ConnUpdateClose(h, reason)
    \/ \E h \in Handles : ConnUpdateOpen(h)
    \/ TimerFire
    \/ UnhandledRejection

SpecInitOnly == Init /\ [][NextInitOnly]_vars

\* POST /api/reconnect has been called (it is awaiting logout, or it was the
\* last request answered)
ReconnectCalled ==
    \/ response.op = "reconnect"
    \/ \E h \in Handles : <<h, "reconnect">> \in closeTasks

\* a handle that is still connecting emits its next event
HandleEvent ==
    \E h \in Handles :
        \/ \E q \in QrStrings : ConnUpdateQr(h, q)
        \/ \E reason \in Reasons : ConnUpdateClose(h, reason)
        \/ ConnUpdateOpen(h)

\* the operator sends no command once POST /api/reconnect has been called
NextAfterReconnect ==
    \/ ~ReconnectCalled /\ ApiInit
    \/ InitResume
    \/ InitFail
    \/ \E h \in Handles, q \in QrStrings : ConnUpdateQr(h, q)
    \/ \E h \in Handles, q \in QrStrings : QrResume(h, q)
    \/ \E h \in Handles, q \in QrStrings : QrFail(h, q)
    \/ \E h \in Handles, reason \in Reasons : ConnUpdateClose(h, reason)
    \/ \E h \in Handles : ConnUpdateOpen(h)
    \/ TimerFire
    \/ \E caller \in Callers : ~ReconnectCalled /\ ApiCloseSession(caller)
    \/ \E h \in Handles, caller \in Callers : LogoutResume(h, caller)
    \/ \E h \in Handles, caller \in Callers : LogoutFail(h, caller)
    \/ UnhandledRejection

\* the event loop runs every continuation and every timer that is ready, and
\* a connecting handle does not stay silent for ever
FairnessA ==
    /\ WF_vars(InitResume \/ InitFail)
    /\ WF_vars(\E h \in Handles, q \in QrStrings : QrResume(h, q) \/ QrFail(h, q))
    /\ WF_vars(\E h \in Handles, caller \in Callers :
                   LogoutResume(h, caller) \/ LogoutFail(h, caller))
    /\ WF_vars(TimerFire)
    /\ WF_vars(HandleEvent)

SpecFair == Init /\ [][NextAfterReconnect]_vars /\ FairnessA

\* ------------------------------------------- actions of src/unnamed/part_001

\* connectToWhatsApp resumes: sock = makeWASocket(...), handlers registered
ConnectResumeB ==
    /\ UNCHANGED varsA
    /\ UNCHANGED lastDelay
    /\ UNCHANGED onlyCloses
    /\ UNCHANGED closes
    /\ UNCHANGED variant
    /\ lastB' = "other"
    /\ connTasks > 0
    /\ FreeHandlesB # {}
    /\ LET h == NextHandleB
       IN  Commit([World EXCEPT !.g.sock = h, !.hs[h] = "new"], logoutTasks)
    /\ connTasks' = connTasks - 1
    /\ UNCHANGED responseB

\* useMultiFileAuthState rejects: the catch block of connectToWhatsApp
ConnectFailB ==
    /\ UNCHANGED varsA
    /\ UNCHANGED lastDelay
    /\ onlyCloses' = FALSE
    /\ closes' = -1
    /\ UNCHANGED variant
    /\ lastB' = "other"
    /\ connTasks > 0
    /\ LET w1 == [World EXCEPT !.g.connectionStatus = "error",
                               !.g.isReconnecting = FALSE]
           w2 == IF MayRetry(w1.g) THEN attemptReconnect(w1) ELSE w1
       IN  /\ WithinB(w2, connTasks - 1, logoutTasks)
           /\ Commit(w2, logoutTasks)
    /\ connTasks' = connTasks - 1
    /\ UNCHANGED responseB

\* connection.update {connection: "connecting"}: the first event of a socket
ConnUpdateConnectingB(h) ==
    /\ UNCHANGED varsA
    /\ UNCHANGED lastDelay
    /\ UNCHANGED onlyCloses
    /\ UNCHANGED closes
    /\ UNCHANGED variant
    /\ lastB' = "other"
    /\ socks[h] = "new"
    /\ Commit([World EXCEPT !.hs[h] = "connecting",
                            !.g.connectionStatus = "conectando"], logoutTasks)
    /\ UNCHANGED <<connTasks, responseB>>

\* connection.update {qr}
ConnUpdateQrB(h, q) ==
    /\ UNCHANGED varsA
    /\ lastDelay' = 0
    /\ onlyCloses' = FALSE
    /\ closes' = -1
    /\ UNCHANGED variant
    /\ lastB' = "other"
    /\ socks[h] = "connecting"
    /\ Commit([World EXCEPT !.g = QrHandlerB(@, q)], logoutTasks)
    /\ UNCHANGED <<connTasks, responseB>>

\* connection.update {connection: "open"}
ConnUpdateOpenB(h) ==
    /\ UNCHANGED varsA
    /\ lastDelay' = 0
    /\ onlyCloses' = FALSE
    /\ closes' = IF globals.shouldReconnect THEN 0 ELSE -1
    /\ UNCHANGED variant
    /\ lastB' = "other"
    /\ socks[h] = "connecting"
    /\ Commit([World EXCEPT !.hs[h] = "open", !.g = OpenHandlerB(@)], logoutTasks)
    /\ UNCHANGED <<connTasks, responseB>>

\* connection.update {connection: "close"} emitted by the protocol client
ConnUpdateCloseB(h, reason) ==
    /\ UNCHANGED varsA
    /\ UNCHANGED onlyCloses
    /\ closes' = IF closes = -1 THEN -1 ELSE Min(closes + 1, MAX_RECONNECT_ATTEMPTS)
    /\ UNCHANGED variant
    /\ lastB' = IF globals.shouldReconnect THEN "other" ELSE "close disabled"
    /\ LiveB(socks, h)
    /\ LET w == EndSocketB(World, h, reason)
       IN  /\ WithinB(w, connTasks, logoutTasks)
           /\ Commit(w, logoutTasks)
           /\ lastDelay' = IF SetsBackoff(timersB, w.tm)
                           THEN w.tm[Len(w.tm)].delay ELSE lastDelay
    /\ UNCHANGED <<connTasks, responseB>>

\* a setTimeout callback runs
TimerFireB(i) ==
    /\ UNCHANGED varsA
    /\ UNCHANGED lastDelay
    /\ UNCHANGED onlyCloses
    /\ UNCHANGED closes
    /\ UNCHANGED variant
    /\ i <= Len(timersB)
    /\ MayFire(timersB, i)
    /\ lastB' = IF timersB[i].kind \in {"backoff", "fresh"} /\ ~globals.shouldReconnect
                THEN "timer disabled" ELSE "other"
    /\ globals' = TimerCallback(globals, timersB[i].kind)
    /\ connTasks' = IF TimerStartsConnect(globals, timersB[i].kind)
                    THEN connTasks + 1 ELSE connTasks
    /\ timersB' = RemoveAt(timersB, i)
    /\ UNCHANGED <<socks, logoutTasks, responseB>>

\* POST /reconectar
Reconectar ==
    /\ UNCHANGED varsA
    /\ lastDelay' = 0
    /\ onlyCloses' = FALSE
    /\ closes' = -1
    /\ UNCHANGED variant
    /\ lastB' = "other"
    /\ LET w0 == [World EXCEPT !.tm = MarkOld(@, "reconectar"),
                               !.g.shouldReconnect = TRUE,
                               !.g.reconnectAttempts = 0,
                               !.g.isReconnecting = FALSE]
           w1 == SetTimeout(cleanupSession(w0), "manual", 2000)
       IN  /\ WithinB(w1, connTasks, logoutTasks)
           /\ Commit(w1, logoutTasks)
    /\ responseB' = [op |-> "reconectar", code |-> 200]
    /\ UNCHANGED connTasks

\* POST /desconectar, up to the await of sock.logout() (or to the 400)
Desconectar ==
    /\ UNCHANGED varsA
    /\ lastDelay' = 0
    /\ onlyCloses' = FALSE
    /\ closes' = -1
    /\ UNCHANGED variant
    /\ LET w0 == [World EXCEPT !.tm = MarkOld(@, "desconectar"),
                               !.g.shouldReconnect = FALSE]
       IN  /\ IF globals.sock # NoSocket
              THEN /\ globals.sock \notin logoutTasks
                   /\ WithinB(w0, connTasks, logoutTasks \cup {globals.sock})
                   /\ Commit(w0, logoutTasks \cup {globals.sock})
                   /\ UNCHANGED responseB
                   /\ lastB' = "other"
              ELSE /\ Commit(w0, logoutTasks)
                   /\ responseB' = [op |-> "desconectar", code |-> 400]
                   /\ lastB' = "desconectar"
           /\ UNCHANGED connTasks

\* sock.logout() resolves: it ended the socket (the 'close' event runs the
\* handler); then cleanupSession and the response
LogoutResumeB(h) ==
    /\ UNCHANGED varsA
    /\ lastDelay' = 0
    /\ onlyCloses' = FALSE
    /\ closes' = -1
    /\ UNCHANGED variant
    /\ lastB' = "desconectar"
    /\ h \in logoutTasks
    /\ LiveB(socks, h)
    /\ LET w == cleanupSession(EndSocketB(World, h, "loggedOut"))
       IN  /\ WithinB(w, connTasks, logoutTasks \ {h})
           /\ Commit(w, logoutTasks \ {h})
    /\ responseB' = [op |-> "desconectar", code |-> 200]
    /\ UNCHANGED connTasks

\* sock.logout() rejects: the catch logs; then cleanupSession and the response
LogoutFailB(h) ==
    /\ UNCHANGED varsA
    /\ lastDelay' = 0
    /\ onlyCloses' = FALSE
    /\ closes' = -1
    /\ UNCHANGED variant
    /\ lastB' = "desconectar"
    /\ h \in logoutTasks
    /\ LET w == cleanupSession(World)
       IN  /\ WithinB(w, connTasks, logoutTasks \ {h})
           /\ Commit(w, logoutTasks \ {h})
    /\ responseB' = [op |-> "desconectar", code |-> 200]
    /\ UNCHANGED connTasks

\* POST /configurar-reconexion with a boolean `enabled`
ConfigurarReconexion(enabled) ==
    /\ UNCHANGED varsA
    /\ UNCHANGED lastDelay
    /\ onlyCloses' = FALSE
    /\ closes' = -1
    /\ UNCHANGED variant
    /\ lastB' = "other"
    /\ globals' = [globals EXCEPT !.shouldReconnect = enabled]
    /\ responseB' = [op |-> "configurar-reconexion", code |-> 200]
    /\ UNCHANGED <<socks, connTasks, logoutTasks, timersB>>

NextB ==
    \/ ConnectResumeB
    \/ ConnectFailB
    \/ \E h \in Handles : ConnUpdateConnectingB(h)
    \/ \E h \in Handles, q \in QrStrings : ConnUpdateQrB(h, q)
    \/ \E h \in Handles : ConnUpdateOpenB(h)
    \/ \E h \in Handles, reason \in Reasons : ConnUpdateCloseB(h, reason)
    \/ \E i \in 1..MaxPending : TimerFireB(i)
    \/ Reconectar
    \/ Desconectar
    \/ \E h \in Handles : LogoutResumeB(h)
    \/ \E h \in Handles : LogoutFailB(h)
    \/ \E enabled \in BOOLEAN : ConfigurarReconexion(enabled)

SpecB == Init /\ [][NextB]_vars

\* POST /enviar: the response, and whether sock.sendMessage was called
\*   part_000: if (!isAuthenticated) 409
\*   part_001: if (connectionStatus !== "conectado" || !isAuthenticated) 400
EnviarConnected(g) ==
    IF variant = "part_001"
    THEN g.connectionStatus = "conectado" /\ g.isAuthenticated
    ELSE g.isAuthenticated

EnviarResponse(g, valid, delivered) ==
    IF ~EnviarConnected(g)
    THEN [op |-> "enviar", code |-> IF variant = "part_001" THEN 400 ELSE 409,
          sent |-> FALSE]
    ELSE IF ~valid
    THEN [op |-> "enviar", code |-> 400, sent |-> FALSE]
    ELSE IF g.sock = NoSocket
    THEN [op |-> "enviar", code |-> 500, sent |-> FALSE]
    ELSE [op |-> "enviar", code |-> IF delivered THEN 200 ELSE 500, sent |-> TRUE]

\* POST /enviar; what follows the await of sock.sendMessage only answers
Enviar(valid, delivered) ==
    /\ UNCHANGED varsA
    /\ UNCHANGED lastDelay
    /\ onlyCloses' = FALSE
    /\ UNCHANGED closes
    /\ responseB' = EnviarResponse(globals, valid, delivered)
    /\ lastB' = "other"
    /\ UNCHANGED <<variant, globals, socks, connTasks, logoutTasks, timersB>>

\* src/unnamed/part_000: no /desconectar and no /configurar-reconexion
Next000 ==
    \/ ConnectResumeB
    \/ ConnectFailB
    \/ \E h \in Handles : ConnUpdateConnectingB(h)
    \/ \E h \in Handles, q \in QrStrings : ConnUpdateQrB(h, q)
    \/ \E h \in Handles : ConnUpdateOpenB(h)
    \/ \E h \in Handles, reason \in Reasons : ConnUpdateCloseB(h, reason)
    \/ \E i \in 1..MaxPending : TimerFireB(i)
    \/ Reconectar
    \/ \E valid \in BOOLEAN, delivered \in BOOLEAN : Enviar(valid, delivered)

Spec000 == Init000 /\ [][Next000]_vars

\* GET /qr of part_001: every answer has code 200; kind names the branch
QrResponseB(g) ==
    IF g.qrCode # NoQrCode
    THEN [op |-> "qr", code |-> 200, kind |-> "payload", qr |-> g.qrCode]
    ELSE IF g.isAuthenticated
    THEN [op |-> "qr", code |-> 200, kind |-> "not needed", qr |-> NoQrCode]
    ELSE IF g.connectionStatus = "conectando"
    THEN [op |-> "qr", code |-> 200, kind |-> "pending", qr |-> NoQrCode]
    ELSE IF g.connectionStatus = "error_reconexion"
    THEN [op |-> "qr", code |-> 200, kind |-> "manual reconnect", qr |-> NoQrCode]
    ELSE [op |-> "qr", code |-> 200, kind |-> "not available", qr |-> NoQrCode]

GetQrB ==
    /\ UNCHANGED varsA
    /\ UNCHANGED lastDelay
    /\ onlyCloses' = FALSE
    /\ UNCHANGED closes
    /\ responseB' = QrResponseB(globals)
    /\ lastB' = "other"
    /\ UNCHANGED <<variant, globals, socks, connTasks, logoutTasks, timersB>>

\* src/unnamed/part_001 with the routes that only read the state
NextBRead ==
    \/ NextB
    \/ GetQrB
    \/ \E valid \in BOOLEAN, delivered \in BOOLEAN : Enviar(valid, delivered)

SpecBRead == Init /\ [][NextBRead]_vars

\* a socket that has not opened yet emits its next event
HandleEventB ==
    \E h \in Handles :
        \/ ConnUpdateConnectingB(h)
        \/ \E q \in QrStrings : ConnUpdateQrB(h, q)
        \/ ConnUpdateOpenB(h)
        \/ \E reason \in Reasons : ConnUpdateCloseB(h, reason)

\* the event loop runs the continuation of every connect and every timer that
\* is due, and a socket that has not opened does not stay silent for ever
Fairness000 ==
    /\ WF_vars(ConnectResumeB \/ ConnectFailB)
    /\ WF_vars(\E i \in 1..MaxPending : TimerFireB(i))
    /\ WF_vars(HandleEventB)

Spec000Fair == Init000 /\ [][Next000]_vars /\ Fairness000


\* ====================================================================
\* src/index.js: the server with a fixed reconnect delay; it uses the globals
\* sock, qrCode and connectionState {status, isAuthenticated, isReconnecting}
\* ====================================================================

INDEX_RECONNECT_DELAY == 10000

RECURSIVE cleanupSessionI(_)
RECURSIVE CloseHandlerI(_, _)

\* sock.end(undefined): the 'close' event of a live handle runs the handler
EndSocketI(w, h, reason) ==
    IF LiveB(w.hs, h)
    THEN CloseHandlerI([w EXCEPT !.hs[h] = "ended"], reason)
    ELSE w

cleanupSessionI(w) ==
    LET w1 == IF w.g.sock # NoSocket THEN EndSocketI(w, w.g.sock, "undefined") ELSE w
    IN  [w1 EXCEPT !.g.sock = NoSocket,
                   !.g.qrCode = NoQrCode,
                   !.g.connectionStatus = "desconectado",
                   !.g.isAuthenticated = FALSE,
                   !.g.isReconnecting = FALSE]

\* const shouldReconnect = statusCode !== loggedOut && ... (a local constant)
ShouldReconnectI(reason) ==
    StatusCodeB(reason) \notin {"loggedOut", "connectionReplaced", "badSession"}

\* connection.update, connection === "close": the status is not assigned
CloseHandlerI(w, reason) ==
    LET w1 == [w EXCEPT !.g.isAuthenticated = FALSE]
    IN  IF ShouldReconnectI(reason) /\ ~w1.g.isReconnecting
        THEN SetTimeout([w1 EXCEPT !.g.isReconnecting = TRUE],
                        "index", INDEX_RECONNECT_DELAY)
        ELSE IF ~ShouldReconnectI(reason)
        THEN cleanupSessionI(w1)
        ELSE w1

\* connection.update, qr present
QrHandlerI(g, q) == [g EXCEPT !.qrCode = q, !.connectionStatus = "esperando_qr"]

\* connection.update, connection === "open"
OpenHandlerI(g) ==
    [g EXCEPT !.isAuthenticated = TRUE, !.qrCode = NoQrCode,
              !.connectionStatus = "conectado"]

\* the callback of the reconnect timer: connectToWhatsApp up to its await
TimerCallbackI(g) == ConnectSync([g EXCEPT !.isReconnecting = FALSE])

InitIndex == InitA /\ InitGlobals /\ variant = "index.js"

\* connectToWhatsApp resumes: sock = makeWASocket(...), handlers registered
ConnectResumeI ==
    /\ UNCHANGED varsA
    /\ UNCHANGED <<variant, lastB, closes, onlyCloses, lastDelay>>
    /\ connTasks > 0
    /\ FreeHandlesB # {}
    /\ LET h == NextHandleB
       IN  Commit([World EXCEPT !.g.sock = h, !.hs[h] = "connecting"], logoutTasks)
    /\ connTasks' = connTasks - 1
    /\ UNCHANGED responseB

\* connectToWhatsApp resumes with a throw: the catch block
ConnectFailI ==
    /\ UNCHANGED varsA
    /\ UNCHANGED <<variant, lastB, closes, onlyCloses, lastDelay>>
    /\ connTasks > 0
    /\ connTasks' = connTasks - 1
    /\ globals' = [globals EXCEPT !.connectionStatus = "error"]
    /\ UNCHANGED <<socks, logoutTasks, timersB, responseB>>

\* connection.update {qr}
ConnUpdateQrI(h, q) ==
    /\ UNCHANGED varsA
    /\ UNCHANGED <<variant, lastB, closes, onlyCloses, lastDelay>>
    /\ socks[h] = "connecting"
    /\ Commit([World EXCEPT !.g = QrHandlerI(@, q)], logoutTasks)
    /\ UNCHANGED <<connTasks, responseB>>

\* connection.update {connection: "open"}
ConnUpdateOpenI(h) ==
    /\ UNCHANGED varsA
    /\ UNCHANGED <<variant, lastB, closes, onlyCloses, lastDelay>>
    /\ socks[h] = "connecting"
    /\ Commit([World EXCEPT !.hs[h] = "open", !.g = OpenHandlerI(@)], logoutTasks)
    /\ UNCHANGED <<connTasks, responseB>>

\* connection.update {connection: "close"} emitted by the protocol client
ConnUpdateCloseI(h, reason) ==
    /\ UNCHANGED varsA
    /\ UNCHANGED <<variant, lastB, closes, onlyCloses, lastDelay>>
    /\ LiveB(socks, h)
    /\ LET w == EndSocketI(World, h, reason)
       IN  /\ WithinB(w, connTasks, logoutTasks)
           /\ Commit(w, logoutTasks)
    /\ UNCHANGED <<connTasks, responseB>>

\* the reconnect timer fires
TimerFireI(i) ==
    /\ UNCHANGED varsA
    /\ UNCHANGED <<variant, lastB, closes, onlyCloses, lastDelay>>
    /\ i <= Len(timersB)
    /\ MayFire(timersB, i)
    /\ globals' = TimerCallbackI(globals)
    /\ connTasks' = IF ConnectStarts(globals) THEN connTasks + 1 ELSE connTasks
    /\ timersB' = RemoveAt(timersB, i)
    /\ UNCHANGED <<socks, logoutTasks, responseB>>

\* POST /reconectar: await cleanupSession(); connectToWhatsApp(); response
ReconectarI ==
    /\ UNCHANGED varsA
    /\ UNCHANGED <<variant, lastB, closes, onlyCloses, lastDelay>>
    /\ LET w1 == cleanupSessionI(World)
           w2 == [w1 EXCEPT !.g = ConnectSync(@)]
           ct == IF ConnectStarts(w1.g) THEN connTasks + 1 ELSE connTasks
       IN  /\ WithinB(w2, ct, logoutTasks)
           /\ Commit(w2, logoutTasks)
           /\ connTasks' = ct
    /\ responseB' = [op |-> "reconectar", code |-> 200]

NextIndex ==
    \/ ConnectResumeI
    \/ ConnectFailI
    \/ \E h \in Handles, q \in QrStrings : ConnUpdateQrI(h, q)
    \/ \E h \in Handles : ConnUpdateOpenI(h)
    \/ \E h \in Handles, reason \in Reasons : ConnUpdateCloseI(h, reason)
    \/ \E i \in 1..MaxPending : TimerFireI(i)
    \/ ReconectarI

SpecIndex == InitIndex /\ [][NextIndex]_vars

\* the event loop runs the continuation of every connect and every timer that
\* is due
FairnessIndex ==
    /\ WF_vars(ConnectResumeI \/ ConnectFailI)
    /\ WF_vars(\E i \in 1..MaxPending : TimerFireI(i))

SpecIndexFair == InitIndex /\ [][NextIndex]_vars /\ FairnessIndex


\* ------------------------------------------------------------------ claims

\* the statuses in which POST /api/init answers without starting anything
ActiveStatuses == {"connected", "connecting", "qr"}

\* a step in which a handle's event changes the state: its close or open
\* event, or the continuation of its qr event
EventStep(h) ==
    \/ \E reason \in Reasons : ConnUpdateClose(h, reason)
    \/ ConnUpdateOpen(h)
    \/ \E q \in QrStrings : QrResume(h, q)

\* a step in which POST /api/disconnect sends its response
DisconnectCompletes ==
    \/ ApiCloseSession("disconnect") /\ closeTasks' = closeTasks
    \/ \E h \in Handles : LogoutResume(h, "disconnect")
    \/ \E h \in Handles : LogoutFail(h, "disconnect")

\* C1: in every reachable state at most one Protocol Client handle is live.
C1_AtMostOneLiveHandle == Cardinality(LiveHandles) <= 1

\* C2: an event of a handle that is not the current handle changes neither
\* status, pairing payload, retry count nor the handle reference.
C2_StaleEventsIgnored ==
    [][\A h \in Handles :
         (SESSION_STATE.socket # h /\ EventStep(h)) => UNCHANGED SESSION_STATE]_vars

\* C3: a timer that was pending when disconnect() was called does not start
\* the Connect Procedure when it fires, and status stays CLOSED.
C3_DisconnectCancelsTimer ==
    [][(oldTimers.by = "disconnect" /\ TimerFire)
         => (initTasks' = initTasks /\ SESSION_STATE'.status = "disconnected")]_vars

\* a step in which timer i, pending since before POST /reconectar was called,
\* fires while the connect that /reconectar started is in flight or has made
\* a handle that is still live
OldTimerFiresB(i) ==
    /\ TimerFireB(i)
    /\ timersB[i].old = "reconectar"
    /\ (connTasks > 0 \/ LiveHandlesB # {})

\* C4: a timer that was pending when reconnect() was called never starts a
\* second Connect Procedure when it fires, whatever the status (AWAITING_PAIRING
\* included): the timer and the connect of reconnect() create one handle.
C4_OldTimerStartsNoSecondConnect ==
    [][\A i \in 1..MaxPending : OldTimerFiresB(i) => connTasks' = connTasks]_vars

\* C5: the pairing payload is stored if and only if status is AWAITING_PAIRING.
C5_PayloadIffAwaitingPairing ==
    (SESSION_STATE.qr # NoQr) <=> (SESSION_STATE.status = "qr")

\* C6: status OPEN implies a stored handle whose last connection event was
\* opened.
C6_OpenImpliesOpenedHandle ==
    SESSION_STATE.status = "connected"
        => (SESSION_STATE.socket # NoSocket /\ handles[SESSION_STATE.socket] = "open")

\* C7: with init as the only operator command, at most one handle is live.
C7_InitOnlyOneLiveHandle ==
    \A g \in LiveHandles, h \in LiveHandles : g = h

\* C8: init() while status is OPEN, CONNECTING or AWAITING_PAIRING answers with
\* the current status and changes neither the session state, the handles, the
\* suspended continuations nor the pending timers.
C8_InitIsNoOpWhenActive ==
    [][(SESSION_STATE.status \in ActiveStatuses /\ ApiInit)
         => /\ UNCHANGED <<SESSION_STATE, handles, initTasks, qrTasks, closeTasks, timers>>
            /\ response'.status = SESSION_STATE.status]_vars

C8_Witness ==
    /\ response = [op |-> "init", code |-> 200, status |-> "qr"]
    /\ SESSION_STATE.status = "qr"
    /\ SESSION_STATE.retryCount > 0

\* C9: init() in any other status sets retryCount to 0 and status to
\* CONNECTING and starts the Connect Procedure.
C9_InitStartsConnect ==
    [][(SESSION_STATE.status \notin ActiveStatuses /\ ApiInit)
         => /\ SESSION_STATE'.retryCount = 0
            /\ SESSION_STATE'.status = "connecting"
            /\ initTasks' = initTasks + 1]_vars

\* C10: when disconnect() completes no handle is stored, status is CLOSED and
\* retryCount is 0.
C10_DisconnectResets ==
    [][DisconnectCompletes
         => /\ SESSION_STATE'.socket = NoSocket
            /\ SESSION_STATE'.status = "disconnected"
            /\ SESSION_STATE'.retryCount = 0]_vars

\* C11: a second POST /desconectar right after a first one has answered
\* reports no error, yields status CLOSED and leaves the state unchanged.
C11_SecondDisconnectNoError ==
    [][(lastB = "desconectar" /\ responseB.code = 200 /\ Desconectar)
         => /\ responseB'.code = 200
            /\ globals'.connectionStatus = "desconectado"
            /\ globals' = globals]_vars

\* POST /api/init as a function of the session state and of the number of
\* connects in flight
InitResult(ss, n) ==
    IF ss.status = "connected" \/ AlreadyInitializing(ss)
    THEN <<ss, n>>
    ELSE LET s0 == [ss EXCEPT !.retryCount = 0]
         IN  <<InitializeSync(s0), IF InitializeStarts(s0) THEN n + 1 ELSE n>>

\* POST /api/disconnect when closeSession awaits nothing
DisconnectResult(ss) ==
    IF ss.socket = NoSocket THEN ss
    ELSE IF Live(ss.socket) THEN CloseHandler(CloseSessionReset(ss), "undefined")
    ELSE CloseSessionReset(ss)

\* a step in which POST /api/reconnect runs from its start to its response
ReconnectRunsThrough == ApiCloseSession("reconnect") /\ closeTasks' = closeTasks

\* C12: the state after reconnect() is the state after disconnect() followed
\* at once by init(): retryCount 0, status CONNECTING, the Connect Procedure
\* started.
C12_ReconnectIsDisconnectThenInit ==
    [][ReconnectRunsThrough
         => /\ <<SESSION_STATE', initTasks'>>
                 = InitResult(DisconnectResult(SESSION_STATE), initTasks)
            /\ SESSION_STATE'.retryCount = 0
            /\ SESSION_STATE'.status = "connecting"]_vars

\* C13: once reconnect() has answered, status eventually is OPEN,
\* AWAITING_PAIRING or ERRORED.
C13_ReconnectSettles ==
    [](response.op = "reconnect"
         => <>(SESSION_STATE.status \in {"connected", "qr", "error"}))

\* C14: send() in a status other than OPEN answers NotConnected and does not
\* call the Protocol Client's sendMessage.
C14_NoSendUnlessOpen ==
    [][\A valid \in BOOLEAN, delivered \in BOOLEAN :
         (globals.connectionStatus # "conectado" /\ valid /\ Enviar(valid, delivered))
            => (~responseB'.sent /\ responseB'.code = 409)]_vars

\* C15: getPairingPayload() returns the payload exactly when status is
\* AWAITING_PAIRING, not-needed exactly when OPEN, pending exactly when
\* CONNECTING, and the not-initialized answer in every other status.
C15_PairingPayloadByStatus ==
    [][GetQrB =>
         /\ responseB'.kind = "payload" <=> globals.connectionStatus = "esperando_qr"
         /\ responseB'.kind = "not needed" <=> globals.connectionStatus = "conectado"
         /\ responseB'.kind = "pending" <=> globals.connectionStatus = "conectando"
         /\ responseB'.kind \in {"manual reconnect", "not available"}
              <=> globals.connectionStatus
                    \notin {"esperando_qr", "conectado", "conectando"}]_vars

\* POST /configurar-reconexion changes shouldReconnect and nothing else
ConfigurarOnlyFlipsFlag ==
    \A enabled \in BOOLEAN :
        ConfigurarReconexion(enabled)
            => /\ globals' = [globals EXCEPT !.shouldReconnect = enabled]
               /\ UNCHANGED <<socks, connTasks, logoutTasks, timersB>>

\* C16, as stated: setAutoReconnect changes only the flag, and a reconnect
\* that an earlier close has scheduled is not altered by it: its timer still
\* starts the Connect Procedure.
C16_ScheduledReconnectNotAltered ==
    [][/\ ConfigurarOnlyFlipsFlag
       /\ \A i \in 1..MaxPending :
            (/\ TimerFireB(i)
             /\ timersB[i].kind = "backoff"
             /\ responseB.op = "configurar-reconexion"
             /\ ConnectStarts(globals))
                => connTasks' = connTasks + 1]_vars

\* C16, amended: setAutoReconnect changes only the flag; the value is read by
\* the next close event (with the flag false it schedules nothing) and by a
\* backoff timer when it fires (with the flag false it starts no Connect
\* Procedure and leaves the status alone).
C16_FlagReadByCloseAndTimer ==
    [][/\ ConfigurarOnlyFlipsFlag
       /\ \A h \in Handles, reason \in Reasons :
            (ConnUpdateCloseB(h, reason) /\ ~globals.shouldReconnect)
                => timersB' = timersB
       /\ \A i \in 1..MaxPending :
            (TimerFireB(i) /\ timersB[i].kind = "backoff" /\ ~globals.shouldReconnect)
                => /\ connTasks' = connTasks
                   /\ globals'.connectionStatus = globals.connectionStatus]_vars

C16_Witness ==
    /\ lastB = "timer disabled"
    /\ responseB = [op |-> "configurar-reconexion", code |-> 200]
    /\ ~globals.shouldReconnect
    /\ globals.connectionStatus = "desconectado"
    /\ connTasks = 0

\* C17: once the handle has emitted closed(Transient) three times after OPEN,
\* with auto-reconnect enabled and no opened or pairing-code event between
\* them, status is ERRORED and no automatic Connect Procedure is pending or
\* started.
C17_ThreeClosesGiveUp ==
    closes = MAX_RECONNECT_ATTEMPTS
        => /\ globals.connectionStatus \in {"error", "error_reconexion"}
           /\ timersB = <<>>
           /\ connTasks = 0

\* C18: with no operator command and every connection attempt ending in a
\* transient close, the automatic reconnects stop: a state is reached with no
\* reconnect timer pending, no connect in flight and no live handle.
C18_RetriesStop ==
    <>(\/ ~onlyCloses
       \/ (timersB = <<>> /\ connTasks = 0 /\ LiveHandlesB = {}))

\* C19: when a handle has emitted a QR and then "open", the state stays that
\* of "open" (status connected, no QR payload, retryCount 0): the continuation
\* of the QR handler, resuming after toDataURL, does not overwrite it.
C19_OpenedNotOverwritten ==
    [][\A h \in Handles, q \in QrStrings :
          (/\ handles[h] = "open"
           /\ SESSION_STATE.socket = h
           /\ SESSION_STATE.status = "connected"
           /\ QrResume(h, q))
          => /\ SESSION_STATE'.status = "connected"
             /\ SESSION_STATE'.qr = NoQr
             /\ SESSION_STATE'.retryCount = 0]_vars

\* C20: no read sees a half-applied event: the state never shows status "qr"
\* without a payload, nor "connected" with a payload or a non-zero retryCount;
\* the QR handler changes nothing before it suspends in toDataURL, and when it
\* resumes the status, the payload and retryCount change together in that step.
C20_EventTransitionsAtomic ==
    /\ [](SESSION_STATE.status = "qr" => SESSION_STATE.qr # NoQr)
    /\ [](SESSION_STATE.status = "connected"
            => SESSION_STATE.qr = NoQr /\ SESSION_STATE.retryCount = 0)
    /\ [][\A h \in Handles, q \in QrStrings :
            /\ ConnUpdateQr(h, q) => SESSION_STATE' = SESSION_STATE
            /\ QrResume(h, q) =>
                 IF SESSION_STATE'.status = "qr"
                 THEN /\ SESSION_STATE'.qr = toDataURL(q)
                      /\ SESSION_STATE'.retryCount = SESSION_STATE.retryCount + 1
                 ELSE /\ SESSION_STATE'.status = "error"
                      /\ SESSION_STATE'.qr = NoQr]_vars

\* POST /api/init read the state after a QR handler had resumed
C20_Witness ==
    /\ response = [op |-> "init", code |-> 200, status |-> "qr"]
    /\ SESSION_STATE.status = "qr"
    /\ SESSION_STATE.qr = toDataURL("XYZ")
    /\ SESSION_STATE.retryCount = 1
    /\ qrTasks = {}

\* C21: every close reason is put in exactly one class: loggedOut in
\* LoggedOut, connectionReplaced in Conflict, badSession in CorruptSession and
\* every other reason in Transient.
C21_CloseReasonClassified ==
    [][\A h \in Handles, reason \in Reasons :
          ConnUpdateCloseB(h, reason) =>
              CloseClassB(reason) =
                  CASE reason = "loggedOut" -> "LoggedOut"
                    [] reason = "connectionReplaced" -> "Conflict"
                    [] reason = "badSession" -> "CorruptSession"
                    [] OTHER -> "Transient"]_vars

\* C22: a QR of the current socket handled while the status is "connecting"
\* gives status "qr" with the payload stored and retryCount 0.
C22_QrResetsRetryCount ==
    [][\A h \in Handles, q \in QrStrings :
          (/\ SESSION_STATE.status = "connecting"
           /\ SESSION_STATE.socket = h
           /\ handles[h] = "connecting"
           /\ QrResume(h, q))
          => /\ SESSION_STATE'.status = "qr"
             /\ SESSION_STATE'.qr = toDataURL(q)
             /\ SESSION_STATE'.retryCount = 0]_vars

\* C23: "open" from the current socket while the status is "qr" or
\* "connecting" gives status "connected", no payload and retryCount 0; and
\* after init, QR, open the state is still "connected" with retryCount 0 when
\* the handler of that QR has finished.
C23_OpenedGivesOpen ==
    [][\A h \in Handles :
          /\ (/\ SESSION_STATE.status \in {"qr", "connecting"}
              /\ SESSION_STATE.socket = h
              /\ ConnUpdateOpen(h))
             => /\ SESSION_STATE'.status = "connected"
                /\ SESSION_STATE'.qr = NoQr
                /\ SESSION_STATE'.retryCount = 0
          /\ \A q \in QrStrings :
                (/\ response.op = "init"
                 /\ SESSION_STATE.socket = h
                 /\ handles[h] = "open"
                 /\ SESSION_STATE.status = "connected"
                 /\ QrResume(h, q))
                => /\ SESSION_STATE'.status = "connected"
                   /\ SESSION_STATE'.retryCount = 0]_vars

\* C24: every close event of the current socket, whatever its reason, clears
\* the QR payload and sets the socket reference to null.
C24_CloseClearsPayloadAndHandle ==
    [][\A h \in Handles, reason \in Reasons :
          (SESSION_STATE.socket = h /\ ConnUpdateClose(h, reason))
          => /\ SESSION_STATE'.qr = NoQr
             /\ SESSION_STATE'.socket = NoSocket]_vars

\* C25: a close of the current socket with reason loggedOut or badSession
\* sets reconnectAttempts to 0 and sets exactly one timer, of the short fixed
\* delay of 3000 ms, that starts a fresh connection.
C25_LoggedOutWipesAndRestarts ==
    [][\A h \in Handles, reason \in {"loggedOut", "badSession"} :
          (globals.sock = h /\ ConnUpdateCloseB(h, reason))
          => /\ globals'.reconnectAttempts = 0
             /\ timersB' = Append(timersB, Timer("fresh", 3000))]_vars

\* C26: a close of the current socket with reason connectionReplaced sets
\* shouldReconnect to false, leaves the status "desconectado" and sets no
\* timer.
C26_ConflictStops ==
    [][\A h \in Handles :
          (globals.sock = h /\ ConnUpdateCloseB(h, "connectionReplaced"))
          => /\ ~globals'.shouldReconnect
             /\ globals'.connectionStatus = "desconectado"
             /\ timersB' = timersB]_vars

\* the close reasons that are neither a logout, nor a conflict, nor a corrupt
\* session
TransientReasons == Reasons \ {"loggedOut", "connectionReplaced", "badSession"}

\* C27: a transient close of the current socket with retryCount < maxRetries
\* increments retryCount by exactly 1 and sets exactly one reconnect timer.
C27_TransientCloseCountsAndSchedules ==
    [][\A h \in Handles, reason \in TransientReasons :
          (/\ SESSION_STATE.socket = h
           /\ SESSION_STATE.retryCount < maxRetries
           /\ ConnUpdateClose(h, reason))
          => /\ SESSION_STATE'.retryCount = SESSION_STATE.retryCount + 1
             /\ timers' = timers + 1]_vars

\* C28: over consecutive transient closes with no "open" and no reset by a
\* request in between, the delay of the timer a close sets is not shorter than
\* the one before, equals RECONNECT_DELAY * min(reconnectAttempts, 3), is at
\* most 3 * RECONNECT_DELAY, and reconnectAttempts grows by exactly 1.
C28_BackoffMonotone ==
    [][\A h \in Handles, reason \in TransientReasons :
          (/\ onlyCloses
           /\ ConnUpdateCloseB(h, reason)
           /\ SetsBackoff(timersB, timersB'))
          => LET delay == timersB'[Len(timersB')].delay
             IN  /\ delay >= lastDelay
                 /\ delay = RECONNECT_DELAY * Min(globals'.reconnectAttempts, 3)
                 /\ delay <= 3 * RECONNECT_DELAY
                 /\ globals'.reconnectAttempts = globals.reconnectAttempts + 1]_vars

\* C29: a transient close of the current socket when reconnectAttempts has
\* reached MAX_RECONNECT_ATTEMPTS leaves an error status and sets no backoff
\* timer; the status is still an error status while the timer of the fresh
\* connection, if any, is pending.
C29_ExhaustedGivesError ==
    [][\A h \in Handles, reason \in TransientReasons :
          (/\ globals.sock = h
           /\ globals.reconnectAttempts >= MAX_RECONNECT_ATTEMPTS
           /\ ConnUpdateCloseB(h, reason))
          => /\ globals'.connectionStatus \in {"error", "error_reconexion"}
             /\ ~SetsBackoff(timersB, timersB')]_vars

\* C30: while shouldReconnect is false, a close event with any reason but
\* loggedOut sets no timer and starts no connection.
C30_DisabledCloseSchedulesNothing ==
    [][\A h \in Handles, reason \in Reasons \ {"loggedOut"} :
          (~globals.shouldReconnect /\ ConnUpdateCloseB(h, reason))
          => /\ timersB' = timersB
             /\ connTasks' = connTasks
             /\ globals'.connectionStatus = "desconectado"]_vars

\* the current socket has just closed after POST /configurar-reconexion
\* disabled the reconnection, and nothing is pending
C30_Witness ==
    /\ lastB = "close disabled"
    /\ responseB = [op |-> "configurar-reconexion", code |-> 200]
    /\ ~globals.shouldReconnect
    /\ globals.sock # NoSocket
    /\ socks[globals.sock] = "ended"
    /\ timersB = <<>>
    /\ connTasks = 0

\* C31: when loading the credentials fails inside connectToWhatsApp, the
\* status becomes "error", and no retry is scheduled: no timer is set and
\* reconnectAttempts is not incremented.
C31_CredentialFailureNotRetried ==
    [][ConnectFailB
          => /\ globals'.connectionStatus = "error"
             /\ timersB' = timersB
             /\ globals'.reconnectAttempts = globals.reconnectAttempts]_vars

\* C32: when making the socket throws inside initializeWhatsApp and
\* retryCount < maxRetries, the status becomes "error", retryCount is
\* incremented and one reconnect timer is set, as for a transient close.
C32_ConstructionFailureRetried ==
    [][(InitFail /\ SESSION_STATE.retryCount < maxRetries)
          => /\ SESSION_STATE'.status = "error"
             /\ SESSION_STATE'.retryCount = SESSION_STATE.retryCount + 1
             /\ timers' = timers + 1]_vars

\* a step of a route: POST /api/init, /api/disconnect, /api/reconnect and the
\* continuations of the two last
OperatorStep ==
    \/ ApiInit
    \/ \E caller \in Callers : ApiCloseSession(caller)
    \/ \E h \in Handles, caller \in Callers : LogoutResume(h, caller)
    \/ \E h \in Handles, caller \in Callers : LogoutFail(h, caller)

OpenStep == \E h \in Handles : ConnUpdateOpen(h)

\* a close event after which the handler sets no reconnect timer, from the
\* protocol client or from socket.end() in the QR handler at maxRetries
CloseWithoutReconnectStep ==
    \/ \E h \in Handles, reason \in Reasons :
          ConnUpdateClose(h, reason) /\ ~ShouldReconnect(SESSION_STATE, reason)
    \/ \E h \in Handles, q \in QrStrings :
          QrResume(h, q) /\ QrGivesUp(SESSION_STATE) /\ Live(h)

\* C33 as stated: retryCount is lowered only by an "open" event or by a
\* route (init, reconnect, disconnect); in every other step it does not
\* decrease.
C33_ResetOnlyByOpenOrOperator ==
    [][SESSION_STATE'.retryCount < SESSION_STATE.retryCount
          => (OpenStep \/ OperatorStep)]_vars

\* C33: retryCount is lowered only by an "open" event, by a route (init,
\* reconnect, disconnect) or by a close event after which no reconnect is
\* scheduled, and then to 0; in every other step it does not decrease.
C33_ResetOnlyByOpenOperatorOrFinalClose ==
    [][SESSION_STATE'.retryCount < SESSION_STATE.retryCount
          => /\ SESSION_STATE'.retryCount = 0
             /\ (OpenStep \/ OperatorStep \/ CloseWithoutReconnectStep)]_vars

\* a close event of the protocol client has reset retryCount after a logout
C33_Witness ==
    /\ lowered = "close"
    /\ SESSION_STATE.status = "disconnected"
    /\ SESSION_STATE.retryCount = 0
    /\ SESSION_STATE.socket = NoSocket
    /\ response.op = "init"

\* C34: in src/index.js, when the socket has closed after the status was
\* "conectado" and the reconnect timer of that close is pending, a new
\* connection attempt eventually begins with status "conectando".
C34_TimerStartsConnection ==
    (/\ globals.connectionStatus = "conectado"
     /\ LiveHandlesB = {}
     /\ connTasks = 0
     /\ timersB # <<>>)
    ~> (connTasks > 0 /\ globals.connectionStatus = "conectando")

\* C35: in every reachable state isAuthenticated is true exactly when the
\* status is "conectado", and then the socket reference is not null.
C35_FlagsAgree ==
    /\ globals.isAuthenticated <=> globals.connectionStatus = "conectado"
    /\ globals.isAuthenticated => globals.sock # NoSocket

\* the pending timers set by the server itself (attemptReconnect's backoff
\* and give-up timers, the logged-out and bad-session timers)
AutomaticTimers == {i \in 1..Len(timersB) : timersB[i].kind \in {"backoff", "fresh"}}

BackoffTimers == {i \in 1..Len(timersB) : timersB[i].kind = "backoff"}

\* C36: at most one automatic reconnect timer is pending at any time, and
\* isReconnecting is true exactly while a backoff timer of attemptReconnect
\* is pending.
C36_OneReconnectTimer ==
    /\ Cardinality(AutomaticTimers) <= 1
    /\ globals.isReconnecting <=> BackoffTimers # {}

\* C37: in every state a request can observe the retry counter lies between
\* 0 and its limit (SESSION_STATE.retryCount <= SESSION_STATE.maxRetries,
\* reconnectAttempts <= MAX_RECONNECT_ATTEMPTS).
C37_RetryCountBounded ==
    /\ SESSION_STATE.retryCount \in 0..maxRetries
    /\ globals.reconnectAttempts \in 0..MAX_RECONNECT_ATTEMPTS

\* the step of POST /api/disconnect in which handle h, torn down by
\* closeSession, emits its 'close' event into the handler
DisconnectClosesHandle(h) ==
    \/ /\ ApiCloseSession("disconnect")
       /\ SESSION_STATE.socket = h
       /\ Live(h)
       /\ closeTasks' = closeTasks
    \/ LogoutResume(h, "disconnect")

\* C38: the close event of a handle that disconnect() tears down schedules
\* no reconnect and leaves the status "disconnected".
C38_TeardownCloseKeepsClosed ==
    [][\A h \in Handles :
         DisconnectClosesHandle(h)
           => /\ SESSION_STATE'.status = "disconnected"
              /\ timers' = timers
              /\ initTasks' = initTasks]_vars

\* C39: no handle is orphaned: every live handle is the one the session
\* state references.
C39_NoOrphanHandle == \A h \in Handles : LiveB(socks, h) => globals.sock = h

\* the QR branch resumes for handle h and retryCount reaches maxRetries
QrLimitReached(h, q) == QrResume(h, q) /\ QrGivesUp(SESSION_STATE)

\* C40: when the pairing codes issued reach maxRetries the session ends in
\* status "error" with qr cleared and the handle released, and no timer is
\* left that would start initializeWhatsApp without an operator's command.
C40_QrLimitStops ==
    [][\A h \in Handles, q \in QrStrings :
         QrLimitReached(h, q)
           => /\ SESSION_STATE'.status = "error"
              /\ SESSION_STATE'.qr = NoQr
              /\ SESSION_STATE'.socket = NoSocket
              /\ handles'[h] \notin {"connecting", "open"}
              /\ timers' = 0]_vars

====
